---- MODULE Spec2Model ----
(***************************************************************************)
(* A model of fairseq/data/data_utils.py (multiDDS): the greedy batch      *)
(* packer batch_by_size, the size filter filter_by_size with its           *)
(* per-index predicate check_size, and the seeded random scope numpy_seed. *)
(*                                                                         *)
(* Each component has its own specification (SpecBatch, SpecFilter,        *)
(* SpecCheckSize, SpecSeed) over its own variables; the variables of the   *)
(* other components stay at their idle values.                             *)
(***************************************************************************)
EXTENDS Integers, Sequences, FiniteSets, TLC

\* ------------------------------------------------------------------------
\* Python values
\* ------------------------------------------------------------------------

\* An optional integer: None is the empty sequence, the integer n is <<n>>.
None == <<>>

Some(n) == <<n>>

IsNone(o) == Len(o) = 0

Max2(a, b) == IF a >= b THEN a ELSE b

Min2(a, b) == IF a <= b THEN a ELSE b

Range(s) == {s[i] : i \in 1..Len(s)}

SetMin(S) == CHOOSE x \in S : \A y \in S : x <= y

SetMax(S) == CHOOSE x \in S : \A y \in S : x >= y

RECURSIVE SeqMax(_)
\* max(sample_lens) if len(sample_lens) > 0 else 0
SeqMax(s) == IF Len(s) = 0 THEN 0 ELSE Max2(Head(s), SeqMax(Tail(s)))

RECURSIVE Concat(_)
\* The concatenation of a sequence of sequences.
Concat(ss) == IF Len(ss) = 0 THEN <<>> ELSE Head(ss) \o Concat(Tail(ss))

\* ------------------------------------------------------------------------
\* Bounds of the model
\* ------------------------------------------------------------------------

\* The most indices one batch_by_size call is given.
MaxLen == 4

\* num_tokens of an example.
TokenVals == {2, 3, 5, 9}

\* The max_tokens, max_sentences and required_batch_size_multiple arguments.
MaxTokensArgs == {None, Some(4), Some(10)}

MaxSentencesArgs == {None, Some(2), Some(3)}

BszMultArgs == {1, 2}

\* sys.maxsize is 2^63 - 1 in CPython; the model checker's integers are 32
\* bits wide, so the model takes the largest of those. Every cost the model
\* computes is far below either.
sys_maxsize == 2147483647

VARIABLES
    b_pc,           \* batch_by_size: "idle", "loop" (inside the packer), "done"
    arg_max_tokens, \* the max_tokens argument as passed (None or an integer)
    arg_max_sentences,
    max_tokens,     \* the values handed to batch_by_size_fast
    max_sentences,
    bsz_mult,
    indices,        \* the indices consumed so far, in input order
    ntoks,          \* ntoks[k] = num_tokens_fn(indices[k])
    batch,          \* the running batch
    sample_lens,    \* num_tokens of the running batch's members (and the candidate)
    sample_len,     \* running max of sample_lens
    batches         \* the batches emitted so far

batchVars == <<b_pc, arg_max_tokens, arg_max_sentences, max_tokens, max_sentences,
               bsz_mult, indices, ntoks, batch, sample_lens, sample_len, batches>>

VARIABLES
    cs_pc,          \* check_size on one index: "idle", "done"
    cs_size,        \* size_fn(idx)
    cs_limit,       \* max_positions
    cs_order,       \* the order in which a set of field names is iterated
    cs_result       \* "True", "False" or the error raised

csVars == <<cs_pc, cs_size, cs_limit, cs_order, cs_result>>

VARIABLES
    f_pc,           \* filter_by_size: "input", "returned", "raised"
    ds_indices,     \* the ordered indices the caller has prepared
    ds_sizes,       \* ds_sizes[k] = dataset.size(ds_indices[k])
    f_args,         \* the arguments of the call
    f_indices,      \* the indices returned
    f_ignored,      \* the indices left out
    f_err           \* the exception raised

filterVars == <<f_pc, ds_indices, ds_sizes, f_args, f_indices, f_ignored, f_err>>

VARIABLES
    np_state,       \* the state of the global NumPy PRNG
    scopes,         \* the numpy_seed scopes entered and not yet left, innermost last
    last_exit       \* what the last scope left did

seedVars == <<np_state, scopes, last_exit>>

VARIABLES
    o_pc,           \* two outermost seeded scopes in turn: "before", "first",
                    \* "between", "second", "done"
    o_first,        \* the first of them: its arguments, the seed it set, its draws
    o_second        \* the second of them

pairVars == <<o_pc, o_first, o_second>>

VARIABLES
    co_pc,          \* collate_tokens: "idle", "returned", "raised"
    co_args,        \* the arguments of the call
    res,            \* the padded batch, as far as it was filled
    co_err          \* the exception raised

collateVars == <<co_pc, co_args, res, co_err>>

VARIABLES
    sw_pc,          \* switchout: "idle", "returned"
    sw_args,        \* the arguments of the call
    num_words,      \* per row, the sampled number of words to corrupt
    corrupt_prob,   \* per position, the probability handed to torch.bernoulli
    corrupt_pos,    \* per position, whether it was selected
    sampled_tokens  \* the tokens returned

switchoutVars == <<sw_pc, sw_args, num_words, corrupt_prob, corrupt_pos, sampled_tokens>>

VARIABLES
    bpe_pc,         \* process_bpe_symbol: "idle", "returned"
    bpe_args,       \* the arguments of the call
    bpe_out         \* the sentence returned

bpeVars == <<bpe_pc, bpe_args, bpe_out>>

VARIABLES
    ts_pc,              \* train_step / valid_step: "idle", "returned"
    ts_args,            \* the step, the configured language pairs, the sample, the flags
    criterion_calls,    \* the language pairs the criterion was called for, in order
    data_actor_out,     \* the language pairs the data actor scored, in order
    agg_loss,
    agg_sample_size,
    agg_logging_output  \* the items [k, val] of the dict, in insertion order

stepVars == <<ts_pc, ts_args, criterion_calls, data_actor_out, agg_loss,
              agg_sample_size, agg_logging_output>>

\* The variables of the operations on token batches and on text.
tokenVars == <<collateVars, switchoutVars, bpeVars, stepVars>>

vars == <<batchVars, csVars, filterVars, seedVars, pairVars, tokenVars>>

notBatchVars == <<csVars, filterVars, seedVars, pairVars, tokenVars>>

notCheckSizeVars == <<batchVars, filterVars, seedVars, pairVars, tokenVars>>

notFilterVars == <<batchVars, csVars, seedVars, pairVars, tokenVars>>

\* What the numpy_seed actions leave alone; the record of the two scopes is
\* kept by the actions that observe them.
notSeedVars == <<batchVars, csVars, filterVars, tokenVars>>

sizeVars == <<batchVars, csVars, filterVars, seedVars, pairVars>>

notCollateVars == <<sizeVars, switchoutVars, bpeVars, stepVars>>

notSwitchoutVars == <<sizeVars, collateVars, bpeVars, stepVars>>

notBpeVars == <<sizeVars, collateVars, switchoutVars, stepVars>>

notStepVars == <<sizeVars, collateVars, switchoutVars, bpeVars>>


\* ------------------------------------------------------------------------
\* Sizes and size limits
\* ------------------------------------------------------------------------

\* A Python value is a record [t, v]: an int, None, a tuple of values, or a
\* dict held as the sequence of its items [k, val] in insertion order.
PyInt(n) == [t |-> "int", v |-> n]

PyNone == [t |-> "none", v |-> 0]

PyTuple(s) == [t |-> "tuple", v |-> s]

PyDict(items) == [t |-> "dict", v |-> items]

\* The scalars a size or a limit holds.
ScalarVals == {1, 2}

\* The field names of a multi-field size or limit.
FieldNames == {"src", "tgt"}

\* The lengths of a tuple of sizes or limits.
TupleLens == {1, 2}

Ints == {PyInt(n) : n \in ScalarVals}

\* Tuples of optional scalars with a length in lens.
TuplesOf(lens) ==
    {PyTuple(s) : s \in UNION {[1..n -> Ints \cup {PyNone}] : n \in lens}}

\* Dicts over the field names in names, of one or two items, every value
\* taken from vals.
DictsOf(names, vals) ==
    {PyDict(<<[k |-> k1, val |-> v1]>>) : k1 \in names, v1 \in vals}
    \cup {PyDict(<<[k |-> ks[1], val |-> v1], [k |-> ks[2], val |-> v2]>>) :
             ks \in {p \in names \X names : p[1] # p[2]}, v1 \in vals, v2 \in vals}

\* Dicts in one insertion order only (for a limit the order is never read).
DictsOrderedOf(names, vals) ==
    {d \in DictsOf(names, vals) : Len(d.v) = 2 => d.v[1].k = "src"}

\* The sizes and limits check_size is applied to.
Sizes == Ints \cup TuplesOf(TupleLens)
         \cup DictsOf(FieldNames, Ints \cup TuplesOf(TupleLens))

Limits == Ints \cup TuplesOf(TupleLens)
          \cup DictsOrderedOf(FieldNames, Ints \cup TuplesOf(TupleLens))

\* The orders in which Python may iterate a set of field names.
KeyOrders == {<<"src", "tgt">>, <<"tgt", "src">>}

\* dict.keys() as a set, dict[key], list(dict.values())
DictKeys(d) == {d.v[i].k : i \in 1..Len(d.v)}

DictGet(d, key) == d.v[CHOOSE i \in 1..Len(d.v) : d.v[i].k = key].val

DictValues(d) == [i \in 1..Len(d.v) |-> d.v[i].val]

\* a <= b: defined between ints; a tuple or None against an int is a TypeError.
PyLeq(a, b) ==
    IF a.t = "int" /\ b.t = "int"
    THEN (IF a.v <= b.v THEN "True" ELSE "False")
    ELSE "TypeError"

RECURSIVE AllPairs(_, _)
\* all(a is None or b is None or a <= b for a, b in zip(xs, ys)), on the
\* element sequences: it stops at the shorter one, at the first False, and at
\* the first comparison that raises.
AllPairs(xs, ys) ==
    IF Len(xs) = 0 \/ Len(ys) = 0 THEN "True"
    ELSE LET a == Head(xs)
             b == Head(ys)
             r == IF a.t = "none" \/ b.t = "none" THEN "True" ELSE PyLeq(a, b)
         IN  IF r = "True" THEN AllPairs(Tail(xs), Tail(ys)) ELSE r

ZipAllSameLength(x, y) ==
    IF x.t = "tuple" /\ y.t = "tuple"
    THEN (IF Len(x.v) = Len(y.v) THEN AllPairs(x.v, y.v) ELSE "False")
    ELSE "TypeError"

\* zip(x, y) needs both iterable: an int is not.
ZipAll(x, y) ==
    IF x.t = "tuple" /\ y.t = "tuple" THEN AllPairs(x.v, y.v) ELSE "TypeError"

RECURSIVE AllLeq(_, _)
\* all(s <= b for b in bs)
AllLeq(s, bs) ==
    IF Len(bs) = 0 THEN "True"
    ELSE LET r == PyLeq(s, Head(bs))
         IN  IF r = "True" THEN AllLeq(s, Tail(bs)) ELSE r

RECURSIVE AllKeys(_, _, _)
\* all(all(... zip(idx_size[key], max_positions[key])) for key in keys)
AllKeys(keys, idx_size, max_positions) ==
    IF Len(keys) = 0 THEN "True"
    ELSE LET r == ZipAll(DictGet(idx_size, Head(keys)),
                         DictGet(max_positions, Head(keys)))
         IN  IF r = "True" THEN AllKeys(Tail(keys), idx_size, max_positions) ELSE r

\* A set of field names in the order it is iterated.
InOrder(order, keys) == SelectSeq(order, LAMBDA k : k \in keys)

CheckScalarLimitAllFields(s, max_positions) ==
    IF s.t # "int"
    THEN (IF s.t = "dict" THEN AllLeq(max_positions, DictValues(s))
                          ELSE "AttributeError")
    ELSE PyLeq(s, max_positions)

\* check_size, scalar max_positions
CheckScalarLimit(s, max_positions) ==
    IF s.t # "int"
    THEN (IF s.t = "dict" THEN PyLeq(DictValues(s)[1], max_positions)
                          ELSE "AttributeError")
    ELSE PyLeq(s, max_positions)

\* check_size, dict max_positions
CheckDictLimit(idx_size, max_positions, order) ==
    IF idx_size.t # "dict" THEN "AssertionError"
    ELSE AllKeys(InOrder(order, DictKeys(max_positions) \cap DictKeys(idx_size)),
                 idx_size, max_positions)

\* check_size, any other max_positions (a tuple)
CheckTupleLimit(s, max_positions) ==
    IF s.t = "dict" THEN AllPairs(DictValues(s), max_positions.v)
    ELSE IF s.t = "int" THEN AllLeq(s, max_positions.v)
    ELSE AllPairs(s.v, max_positions.v)

\* check_size(idx) with s = size_fn(idx): "True", "False", or the exception.
CheckSize(s, max_positions, order) ==
    IF max_positions.t = "int" THEN CheckScalarLimit(s, max_positions)
    ELSE IF max_positions.t = "dict" THEN CheckDictLimit(s, max_positions, order)
    ELSE CheckTupleLimit(s, max_positions)

CheckSizeIdle ==
    /\ cs_pc = "idle"
    /\ cs_size = PyNone
    /\ cs_limit = PyNone
    /\ cs_order = <<>>
    /\ cs_result = "none"

\* check_size is applied to one index of size s under limit max_positions.
CheckSizeCall(s, max_positions, order) ==
    /\ cs_pc = "idle"
    /\ cs_pc' = "done"
    /\ cs_size' = s
    /\ cs_limit' = max_positions
    /\ cs_order' = order
    /\ cs_result' = CheckSize(s, max_positions, order)
    /\ UNCHANGED notCheckSizeVars

FilterIdle ==
    /\ f_pc = "input"
    /\ ds_indices = <<>>
    /\ ds_sizes = <<>>
    /\ f_args = <<>>
    /\ f_indices = <<>>
    /\ f_ignored = <<>>
    /\ f_err = <<>>


\* ------------------------------------------------------------------------
\* filter_by_size
\* ------------------------------------------------------------------------

\* The most indices one filter_by_size call is given.
MaxIdx == 3

\* The sizes a dataset reports to filter_by_size and the limits it is called
\* with: every shape of size and limit, with one field name and tuples of
\* length one (check_size on wider sizes is covered by SpecCheckSize).
FilterSizes == Ints \cup TuplesOf({1}) \cup DictsOf({"src"}, Ints \cup TuplesOf({1}))

FilterLimits == FilterSizes

\* The one order in which the one field name is iterated.
FilterKeyOrders == {<<"src">>}

\* dataset.sizes: a numpy array, a list holding one array, or no such attribute.
SizesAttrs == {"ndarray", "list1", "none"}

\* Two sizes of the same shape (a dataset reports one shape of size).
SameShape(a, b) ==
    /\ a.t = b.t
    /\ a.t = "dict" => a.v[1].val.t = b.v[1].val.t

RECURSIVE CollectFilteredInverted(_, _, _)
CollectFilteredInverted(verdicts, iterable, noskip) ==
    IF Len(iterable) = 0 THEN [yielded |-> <<>>, filtered |-> <<>>, err |-> "none"]
    ELSE IF Head(verdicts) \notin {"True", "False"}
    THEN [yielded |-> <<>>, filtered |-> <<>>, err |-> Head(verdicts)]
    ELSE LET rest == CollectFilteredInverted(Tail(verdicts), Tail(iterable), noskip)
         IN  IF rest.err # "none" THEN rest
             ELSE IF Head(verdicts) = "False" \/ noskip
             THEN [rest EXCEPT !.yielded = <<Head(iterable)>> \o @]
             ELSE [rest EXCEPT !.filtered = <<Head(iterable)>> \o @]

RECURSIVE CollectFiltered(_, _, _)
\* collect_filtered, run to exhaustion: verdicts[k] is function(iterable[k]).
\* The elements yielded and those appended to filtered, each in encounter
\* order; an exception raised by function ends the iteration.
CollectFiltered(verdicts, iterable, noskip) ==
    IF Len(iterable) = 0 THEN [yielded |-> <<>>, filtered |-> <<>>, err |-> "none"]
    ELSE IF Head(verdicts) \notin {"True", "False"}
    THEN [yielded |-> <<>>, filtered |-> <<>>, err |-> Head(verdicts)]
    ELSE LET rest == CollectFiltered(Tail(verdicts), Tail(iterable), noskip)
         IN  IF rest.err # "none" THEN rest
             ELSE IF Head(verdicts) = "True" \/ noskip
             THEN [rest EXCEPT !.yielded = <<Head(iterable)>> \o @]
             ELSE [rest EXCEPT !.filtered = <<Head(iterable)>> \o @]

\* _filter_by_size_dynamic: (indices, ignored), or the exception of check_size.
FilterBySizeDynamic(idxs, sizes, max_positions, noskip, order) ==
    LET verdicts == [k \in 1..Len(idxs) |-> CheckSize(sizes[k], max_positions, order)]
        c == CollectFiltered(verdicts, idxs, noskip)
    IN  [indices |-> c.yielded,
         ignored |-> IF noskip THEN <<>> ELSE c.filtered,
         err |-> c.err]

\* indices[dataset.sizes[indices] > max_positions] and
\* indices[dataset.sizes[indices] <= max_positions]
FilterBySizeVectorised(idxs, sizes, max_positions) ==
    LET pos == 1..Len(idxs)
        over == {k \in pos : sizes[k].v > max_positions.v}
        under == {k \in pos : sizes[k].v <= max_positions.v}
        Pick(S) == LET RECURSIVE Go(_)
                       Go(k) == IF k > Len(idxs) THEN <<>>
                                ELSE (IF k \in S THEN <<idxs[k]>> ELSE <<>>) \o Go(k + 1)
                   IN  Go(1)
    IN  [indices |-> Pick(under), ignored |-> Pick(over), err |-> "none"]

\* Whether filter_by_size takes a vectorised path.
IsVectorised(max_positions, sizes_attr) ==
    max_positions.t = "int" /\ sizes_attr \in {"ndarray", "list1"}

FilterRaisesAlways(ignored, raise_exception) == Len(ignored) > 0

\* if len(ignored) > 0 and raise_exception
FilterRaises(ignored, raise_exception) == Len(ignored) > 0 /\ raise_exception

\* filter_by_size: the indices returned, or the exception raised.
FilterBySizeOutcome(idxs, sizes, a) ==
    LET r == IF IsVectorised(a.max_positions, a.sizes_attr)
             THEN FilterBySizeVectorised(idxs, sizes, a.max_positions)
             ELSE FilterBySizeDynamic(idxs, sizes, a.max_positions, a.noskip, a.order)
        size_of(i) == sizes[CHOOSE k \in 1..Len(idxs) : idxs[k] = i]
    IN  IF r.err # "none"
        THEN [pc |-> "raised", indices |-> <<>>, ignored |-> <<>>, err |-> <<r.err>>]
        ELSE IF FilterRaises(r.ignored, a.raise_exception)
        THEN [pc |-> "raised", indices |-> <<>>, ignored |-> r.ignored,
              err |-> <<"Exception", r.ignored[1], size_of(r.ignored[1]),
                        a.max_positions>>]
        ELSE [pc |-> "returned", indices |-> r.indices, ignored |-> r.ignored,
              err |-> <<>>]

\* The indices the caller may add next: distinct dataset indices, each the
\* lowest or the highest one not yet used.
NextDatasetIndices ==
    LET unused == (0..(MaxIdx - 1)) \ Range(ds_indices)
    IN  IF unused = {} THEN {} ELSE {SetMin(unused), SetMax(unused)}

\* The caller adds one index, of size s, to the ordered indices.
Feed(idx, s) ==
    /\ f_pc = "input"
    /\ idx \in NextDatasetIndices
    /\ Len(ds_sizes) > 0 => SameShape(ds_sizes[1], s)
    /\ ds_indices' = Append(ds_indices, idx)
    /\ ds_sizes' = Append(ds_sizes, s)
    /\ UNCHANGED <<f_pc, f_args, f_indices, f_ignored, f_err>>
    /\ UNCHANGED notFilterVars

\* filter_by_size is called on the prepared indices.
FilterBySize(max_positions, raise_exception, noskip, sizes_attr, order) ==
    /\ f_pc = "input"
    /\ sizes_attr # "none" => \A k \in 1..Len(ds_sizes) : ds_sizes[k].t = "int"
    /\ LET a == [max_positions |-> max_positions, raise_exception |-> raise_exception,
                 noskip |-> noskip, sizes_attr |-> sizes_attr, order |-> order]
           out == FilterBySizeOutcome(ds_indices, ds_sizes, a)
       IN  /\ f_args' = a
           /\ f_pc' = out.pc
           /\ f_indices' = out.indices
           /\ f_ignored' = out.ignored
           /\ f_err' = out.err
    /\ UNCHANGED <<ds_indices, ds_sizes>>
    /\ UNCHANGED notFilterVars


\* ------------------------------------------------------------------------
\* numpy_seed
\* ------------------------------------------------------------------------

\* The number of states of the model's PRNG.
RngStates == 4

\* The deepest nesting of numpy_seed scopes.
MaxDepth == 2

\* The seed and the additional seeds a scope is entered with.
SeedArgs == {None, Some(0), Some(1), Some(5)}

AddlSeedArgs == {<<>>, <<1>>, <<2, 3>>}

\* One draw advances the generator along its cycle of states.
RngStep(state) == (state + 1) % RngStates

SeedStateMixed(seed) == (np_state + 3 * seed + 1) % RngStates

\* np.random.seed(seed): the state is a function of the seed alone.
SeedState(seed) == (3 * seed + 1) % RngStates

RECURSIVE HashFold(_, _)
HashFold(h, t) == IF Len(t) = 0 THEN h
                  ELSE HashFold((31 * h + Head(t)) % 1000003, Tail(t))

\* A hash is a signed 64-bit integer. Its magnitude is held in three limbs of
\* 21 bits, l2 * 2^42 + l1 * 2^21 + l0, and neg is its sign.
Limb == 2097152

\* The modulus of the effective seed, 1e6.
Million == 1000000

\* The significant bits of a double.
DoubleBits == 53

\* hash((seed, *addl_seeds)): a deterministic function of the tuple, spread
\* over the 64 bits.
TupleHash(t) ==
    [neg |-> HashFold(17, t) % 2 = 1,
     l2  |-> HashFold(13, t),
     l1  |-> HashFold(11, t),
     l0  |-> HashFold(7, t)]

RECURSIVE BitLen(_)
BitLen(n) == IF n = 0 THEN 0 ELSE 1 + BitLen(n \div 2)

RECURSIVE Pow2(_)
Pow2(e) == IF e = 0 THEN 1 ELSE 2 * Pow2(e - 1)

\* The number of bits of the magnitude of a hash.
HashBitLen(h) ==
    IF h.l2 > 0 THEN 2 * 21 + BitLen(h.l2)
    ELSE IF h.l1 > 0 THEN 21 + BitLen(h.l1)
    ELSE BitLen(h.l0)

\* n rounded to the nearest multiple of unit, a tie to the even multiple.
RoundHalfEven(n, unit) ==
    LET q == n \div unit
        r == n % unit
    IN  IF 2 * r < unit THEN q * unit
        ELSE IF 2 * r > unit THEN (q + 1) * unit
        ELSE IF q % 2 = 0 THEN q * unit ELSE (q + 1) * unit

\* The operand of % 1e6 is converted to a double: an integer of more than 53
\* bits is rounded to 53 significant bits. The bits that are dropped lie in
\* the lowest limb; a carry out of it moves up.
FloatOf(h) ==
    LET e  == Max2(0, HashBitLen(h) - DoubleBits)
        r0 == RoundHalfEven(h.l0, Pow2(e))
        c0 == r0 \div Limb
        r1 == h.l1 + c0
        c1 == r1 \div Limb
    IN  [neg |-> h.neg, l2 |-> h.l2 + c1, l1 |-> r1 % Limb, l0 |-> r0 % Limb]

\* a * b modulo 1e6, for a below 1e6.
RECURSIVE MulMod(_, _)
MulMod(a, b) ==
    IF b = 0 THEN 0
    ELSE (2 * MulMod(a, b \div 2) + (b % 2) * a) % Million

\* x % 1e6 as Python computes it: the result has the sign of the divisor.
PyModMillion(h) ==
    LET w1 == Limb % Million
        w2 == MulMod(w1, Limb)
        m  == (MulMod(w2, h.l2) + MulMod(w1, h.l1) + h.l0) % Million
    IN  IF h.neg THEN (Million - m) % Million ELSE m

\* int(hash((seed, *addl_seeds)) % 1e6) with additional seeds, the seed itself
\* without. 1e6 is a float, so the hash is converted to a double first.
EffectiveSeed(seed, addl_seeds) ==
    IF Len(addl_seeds) > 0
    THEN PyModMillion(FloatOf(TupleHash(<<seed>> \o addl_seeds)))
    ELSE seed

RestoredOnReturnOnly(frame, how, current) ==
    IF frame.seeded /\ how = "return" THEN frame.state ELSE current

\* The PRNG state after a scope is left: a seeded scope sets the state it
\* saved (try/finally: on return and on an exception alike), a scope entered
\* with seed None changes nothing.
Restored(frame, how, current) ==
    IF frame.seeded THEN frame.state ELSE current

NumpySeedEnterReseeds(seed, addl_seeds) ==
    /\ Len(scopes) < MaxDepth
    /\ scopes' = Append(scopes, [seeded |-> ~IsNone(seed),
                                 state |-> IF IsNone(seed) THEN 0 ELSE np_state,
                                 entry |-> IF IsNone(seed) THEN 0 ELSE np_state,
                                 drew |-> FALSE])
    /\ np_state' = SeedState(EffectiveSeed(IF IsNone(seed) THEN 0 ELSE seed[1],
                                           addl_seeds))
    /\ UNCHANGED last_exit
    /\ UNCHANGED notSeedVars

\* with numpy_seed(seed, *addl_seeds): the scope is entered. A frame holds the
\* state the code saved (state) and, for the claims, the state at entry of a
\* seeded scope (entry) and whether anything was drawn inside it (drew).
NumpySeedEnter(seed, addl_seeds) ==
    /\ Len(scopes) < MaxDepth
    /\ IF IsNone(seed)
       THEN /\ scopes' = Append(scopes, [seeded |-> FALSE, state |-> 0,
                                         entry |-> 0, drew |-> FALSE])
            /\ np_state' = np_state
       ELSE /\ scopes' = Append(scopes, [seeded |-> TRUE, state |-> np_state,
                                         entry |-> np_state, drew |-> FALSE])
            /\ np_state' = SeedState(EffectiveSeed(seed[1], addl_seeds))
    /\ UNCHANGED last_exit
    /\ UNCHANGED notSeedVars

\* A draw from the global PRNG, inside or outside a scope.
Draw ==
    /\ np_state' = RngStep(np_state)
    /\ scopes' = [k \in 1..Len(scopes) |-> [scopes[k] EXCEPT !.drew = TRUE]]
    /\ UNCHANGED last_exit
    /\ UNCHANGED notSeedVars

\* The innermost scope is left, how = "return" when its body completes and
\* "raise" when its body raises.
NumpySeedExit(how) ==
    /\ Len(scopes) > 0
    /\ LET frame == scopes[Len(scopes)]
       IN  /\ np_state' = Restored(frame, how, np_state)
           /\ last_exit' = [left |-> TRUE, seeded |-> frame.seeded, how |-> how,
                            entry |-> frame.entry, drew |-> frame.drew,
                            after |-> Restored(frame, how, np_state)]
    /\ scopes' = SubSeq(scopes, 1, Len(scopes) - 1)
    /\ UNCHANGED notSeedVars

SeedIdle ==
    /\ scopes = <<>>
    /\ last_exit = [left |-> FALSE, seeded |-> FALSE, how |-> "return", entry |-> 0,
                    drew |-> FALSE, after |-> 0]

\* The draws of a scope that are recorded.
MaxDraws == 2

\* The seeds and the additional seeds of the two scopes.
PairSeedArgs == {Some(1), Some(5)}

PairAddlSeedArgs == {<<>>, <<2, 3>>}

NoScope == [seed |-> None, addl_seeds |-> <<>>, at |-> 0, set |-> 0, draws |-> <<>>]

\* The record of a seeded scope at its entry: at is the PRNG state it is
\* entered in, set is the argument of np.random.seed.
Entered(seed, addl_seeds) ==
    [seed |-> seed, addl_seeds |-> addl_seeds, at |-> np_state,
     set |-> EffectiveSeed(seed[1], addl_seeds), draws |-> <<>>]

Drawn(rec, value) ==
    IF Len(rec.draws) < MaxDraws
    THEN [rec EXCEPT !.draws = Append(@, value)]
    ELSE rec

\* numpy_seed is entered outside any scope; a seeded scope is recorded as the
\* first or the second of the two.
PairEnter(seed, addl_seeds) ==
    /\ scopes = <<>>
    /\ o_pc # "done"
    /\ NumpySeedEnter(seed, addl_seeds)
    /\ IF ~IsNone(seed) /\ o_pc = "before"
       THEN /\ o_pc' = "first"
            /\ o_first' = Entered(seed, addl_seeds)
            /\ UNCHANGED o_second
       ELSE IF ~IsNone(seed) /\ o_pc = "between"
       THEN /\ o_pc' = "second"
            /\ o_second' = Entered(seed, addl_seeds)
            /\ UNCHANGED o_first
       ELSE UNCHANGED pairVars

\* A draw; the value drawn is the state the PRNG moves to.
PairDraw ==
    /\ o_pc # "done"
    /\ Draw
    /\ o_first' = IF o_pc = "first" /\ scopes # <<>>
                  THEN Drawn(o_first, np_state') ELSE o_first
    /\ o_second' = IF o_pc = "second" /\ scopes # <<>>
                   THEN Drawn(o_second, np_state') ELSE o_second
    /\ UNCHANGED o_pc

PairExit(how) ==
    /\ NumpySeedExit(how)
    /\ o_pc' = IF o_pc = "first" /\ scopes[1].seeded THEN "between"
               ELSE IF o_pc = "second" /\ scopes[1].seeded THEN "done"
               ELSE o_pc
    /\ UNCHANGED <<o_first, o_second>>

PairIdle ==
    /\ o_pc = "before"
    /\ o_first = NoScope
    /\ o_second = NoScope

\* ------------------------------------------------------------------------
\* batch_by_size
\* ------------------------------------------------------------------------

OrZero(arg) == IF IsNone(arg) THEN 0 ELSE arg[1]

\* x if x is not None else sys.maxsize
OrMaxsize(arg) == IF IsNone(arg) THEN sys_maxsize ELSE arg[1]

FastArgsSwapped(mt, ms, mult) ==
    [max_tokens |-> OrMaxsize(ms), max_sentences |-> OrMaxsize(mt), bsz_mult |-> mult]

\* The arguments batch_by_size hands to batch_by_size_fast.
FastArgs(mt, ms, mult) ==
    [max_tokens |-> OrMaxsize(mt), max_sentences |-> OrMaxsize(ms), bsz_mult |-> mult]

\* "If adding the index would exceed max_tokens, or len(batch)+1 >
\* max_sentences, close the current batch ... unless the current batch is empty"
IsBatchFull(b, num_tokens, mt, ms) ==
    /\ Len(b) > 0
    /\ (num_tokens > mt \/ Len(b) + 1 > ms)

ModLenWhole(n, mult) == n

\* The length at which a full batch is closed: the largest multiple of the
\* size multiple that fits, or the whole batch when it is shorter than that.
ModLen(n, mult) == Max2(mult * (n \div mult), n % mult)

HeldBackDropped(b, mod_len) == <<>>

\* The indices held back into the next batch.
HeldBack(b, mod_len) == SubSeq(b, mod_len + 1, Len(b))

\* batch_by_size is called: the defaults are filled in and the packer starts.
BatchBySize(mt, ms, mult) ==
    /\ b_pc = "idle"
    /\ arg_max_tokens' = mt
    /\ arg_max_sentences' = ms
    /\ max_tokens' = FastArgs(mt, ms, mult).max_tokens
    /\ max_sentences' = FastArgs(mt, ms, mult).max_sentences
    /\ bsz_mult' = FastArgs(mt, ms, mult).bsz_mult
    /\ b_pc' = "loop"
    /\ UNCHANGED <<indices, ntoks, batch, sample_lens, sample_len, batches>>
    /\ UNCHANGED notBatchVars

\* The indices a call may be given next: distinct dataset indices, each the
\* lowest or the highest one not yet used.
NextIndices == LET unused == (0..(MaxLen - 1)) \ Range(indices)
               IN  IF unused = {} THEN {} ELSE {SetMin(unused), SetMax(unused)}

\* One iteration of the packer's loop, on index idx with num_tokens_fn(idx) = nt.
BatchStep(idx, nt) ==
    /\ b_pc = "loop"
    /\ idx \in NextIndices
    /\ LET lens1 == Append(sample_lens, nt)
           len1 == Max2(sample_len, nt)
           num_tokens == (Len(batch) + 1) * len1
           full == IsBatchFull(batch, num_tokens, max_tokens, max_sentences)
           mod_len == ModLen(Len(batch), bsz_mult)
           lens2 == IF full THEN SubSeq(lens1, mod_len + 1, Len(lens1)) ELSE lens1
       IN  /\ batches' = IF full THEN Append(batches, SubSeq(batch, 1, mod_len))
                                 ELSE batches
           /\ batch' = Append(IF full THEN HeldBack(batch, mod_len) ELSE batch, idx)
           /\ sample_lens' = lens2
           /\ sample_len' = IF full THEN SeqMax(lens2) ELSE len1
    /\ indices' = Append(indices, idx)
    /\ ntoks' = Append(ntoks, nt)
    /\ UNCHANGED <<b_pc, arg_max_tokens, arg_max_sentences, max_tokens,
                   max_sentences, bsz_mult>>
    /\ UNCHANGED notBatchVars

\* The indices are exhausted: the running batch, if any, is the last batch.
BatchFinish ==
    /\ b_pc = "loop"
    /\ Len(indices) > 0
    /\ batches' = IF Len(batch) > 0 THEN Append(batches, batch) ELSE batches
    /\ b_pc' = "done"
    /\ UNCHANGED <<arg_max_tokens, arg_max_sentences, max_tokens, max_sentences,
                   bsz_mult, indices, ntoks, batch, sample_lens, sample_len>>
    /\ UNCHANGED notBatchVars

BatchIdle ==
    /\ b_pc = "idle"
    /\ arg_max_tokens = None
    /\ arg_max_sentences = None
    /\ max_tokens = 0
    /\ max_sentences = 0
    /\ bsz_mult = 1
    /\ indices = <<>>
    /\ ntoks = <<>>
    /\ batch = <<>>
    /\ sample_lens = <<>>
    /\ sample_len = 0
    /\ batches = <<>>

\* ------------------------------------------------------------------------
\* collate_tokens
\* ------------------------------------------------------------------------

\* The ids of the dictionary: dic.bos(), dic.pad(), dic.eos(), and len(dic).
DicBos == 0

DicPad == 1

DicEos == 2

DicLen == 5

\* The longest sequence collated and the most sequences in one call.
MaxSeqLen == 3

MaxValues == 2

\* The ids a sequence to collate holds: eos and an ordinary word.
CollateIds == {DicEos, 4}

\* The 1d tensors: every sequence of at most MaxSeqLen ids.
TokenSeqs == UNION {[1..n -> CollateIds] : n \in 0..MaxSeqLen}

\* The lists of tensors: at least one.
ValueLists == UNION {[1..n -> TokenSeqs] : n \in 1..MaxValues}

\* The eos_idx argument.
EosIdxArgs == {None, Some(DicEos)}

\* values[0].new(len(values), size).fill_(pad_idx)
Filled(rows, size, pad_idx) == [i \in 1..rows |-> [j \in 1..size |-> pad_idx]]

\* The first cell (counted from 1) of the slice of a row a sequence of length
\* n is copied to: res[i][size - len(v):] if left_pad else res[i][:len(v)].
DstStart(size, n, left_pad) == IF left_pad THEN size - n + 1 ELSE 1

CopyTensorKeepsEos(src, eos_idx, move_eos_to_beginning) ==
    [err |-> <<>>, dst |-> src]

\* copy_tensor(src, dst): what dst holds afterwards, or the error raised.
\* dst.numel() == src.numel() holds for the slices above. src[-1] of an
\* empty tensor is an IndexError.
CopyTensor(src, eos_idx, move_eos_to_beginning) ==
    IF move_eos_to_beginning
    THEN IF Len(src) = 0 THEN [err |-> <<"IndexError">>, dst |-> src]
         ELSE IF Some(src[Len(src)]) # eos_idx
              THEN [err |-> <<"AssertionError">>, dst |-> src]
         ELSE [err |-> <<>>,
               dst |-> <<eos_idx[1]>> \o SubSeq(src, 1, Len(src) - 1)]
    ELSE [err |-> <<>>, dst |-> src]

WriteSliceShifted(row, start, dst) ==
    [j \in 1..Len(row) |->
        IF j >= 1 /\ j < 1 + Len(dst) THEN dst[j] ELSE row[j]]

\* row with dst written into its slice.
WriteSlice(row, start, dst) ==
    [j \in 1..Len(row) |->
        IF j >= start /\ j < start + Len(dst) THEN dst[j - start + 1] ELSE row[j]]

\* for i, v in enumerate(values): copy_tensor(v, ...), from row i on; the loop
\* stops at the first error.
RECURSIVE CopyRows(_, _, _, _)
CopyRows(r, i, values, a) ==
    IF i > Len(values) THEN [err |-> <<>>, res |-> r]
    ELSE LET c == CopyTensor(values[i], a.eos_idx, a.move_eos_to_beginning)
             size == IF Len(r) = 0 THEN 0 ELSE Len(r[1])
         IN  IF c.err # <<>> THEN [err |-> c.err, res |-> r]
             ELSE CopyRows([r EXCEPT ![i] =
                                WriteSlice(@, DstStart(size, Len(values[i]), a.left_pad),
                                           c.dst)],
                           i + 1, values, a)

\* collate_tokens(values, pad_idx, eos_idx, left_pad, move_eos_to_beginning)
CollateTokens(a) ==
    LET size == SetMax({Len(a.values[i]) : i \in 1..Len(a.values)})
    IN  CopyRows(Filled(Len(a.values), size, a.pad_idx), 1, a.values, a)

Collate(values, eos_idx, left_pad, move_eos_to_beginning) ==
    LET a == [values |-> values, pad_idx |-> DicPad, eos_idx |-> eos_idx,
              left_pad |-> left_pad, move_eos_to_beginning |-> move_eos_to_beginning]
        out == CollateTokens(a)
    IN  /\ co_args' = a
        /\ co_pc' = IF out.err = <<>> THEN "returned" ELSE "raised"
        /\ res' = out.res
        /\ co_err' = out.err
        /\ UNCHANGED notCollateVars

CollateIdle ==
    /\ co_pc = "idle"
    /\ co_args = <<>>
    /\ res = <<>>
    /\ co_err = <<>>

\* ------------------------------------------------------------------------
\* switchout
\* ------------------------------------------------------------------------

\* The sentences of a batch: an optional bos, words, and eos at the end.
SwitchoutWord == 4

Sentences ==
    {s \in UNION {[1..n -> {DicBos, DicEos, SwitchoutWord}] : n \in 1..MaxSeqLen} :
        /\ s[Len(s)] = DicEos
        /\ \A j \in 1..(Len(s) - 1) : s[j] # DicEos
        /\ \A j \in 2..Len(s) : s[j] # DicBos}

\* The rows of a batch.
SwitchoutRows == {1, 2}

\* tau > 0: a moderate and a large temperature.
TauVals == {1, 200}

\* exp(-x) is 0 in single precision from x = 104 on.
ExpUnderflow == 104

\* What an uninitialised element of torch.LongTensor(total_words) may hold.
CorruptVals == {-1, 0}

\* The positions of a batch: the rows and the columns of tokens.
Rows(tokens) == 1..Len(tokens)

Cols(tokens) == 1..Len(tokens[1])

\* pad_mask = (tokens == dic.pad())
PadMask(tokens) == [i \in Rows(tokens) |-> [j \in Cols(tokens) |-> tokens[i][j] = DicPad]]

SampleMaskPadOnly(tokens) == PadMask(tokens)

\* sample_mask = ~((~pad_mask) & (~eos_mask) & (~bos_mask))
SampleMask(tokens) ==
    [i \in Rows(tokens) |-> [j \in Cols(tokens) |->
        ~(tokens[i][j] # DicPad /\ tokens[i][j] # DicEos /\ tokens[i][j] # DicBos)]]

LengthMaskNone(tokens, lengths) == [i \in Rows(tokens) |-> [j \in Cols(tokens) |-> FALSE]]

\* mask: row i is 0 on its first lengths[i] positions and 1 on the others.
LengthMask(tokens, lengths) == [i \in Rows(tokens) |-> [j \in Cols(tokens) |-> j > lengths[i]]]

\* The counts k with probs[i][k] > 0: logit -k * tau where the mask is 0, -inf
\* where it is 1 (softmax gives 0), and exp(-k * tau) itself 0 once it
\* underflows. Counts start at 0, positions at 1.
Support(tokens, lengths, tau, i) ==
    {k \in 0..(Len(tokens[i]) - 1) :
        /\ ~LengthMask(tokens, lengths)[i][k + 1]
        /\ k * tau < ExpUnderflow}

\* What torch.distributions.Categorical(probs).sample() may return.
NumWordsSamples(tokens, lengths, tau) ==
    {nw \in [1..Len(tokens) -> 0..MaxSeqLen] :
        \A i \in 1..Len(tokens) : nw[i] \in Support(tokens, lengths, tau, i)}

\* corrupt_pos before the Bernoulli draw: num_words / lengths on every
\* position of the row, 0 where sample_mask is set. A probability is held as
\* a fraction.
CorruptProb(tokens, lengths, nw) ==
    [i \in Rows(tokens) |-> [j \in Cols(tokens) |->
        IF SampleMask(tokens)[i][j] THEN [num |-> 0, den |-> 1]
        ELSE [num |-> nw[i], den |-> lengths[i]]]]

\* What torch.bernoulli may return: a position is drawn with probability
\* num / den, so it can be selected when num > 0 and left when num < den.
BernoulliSamples(tokens, prob) ==
    {pos \in [1..Len(tokens) -> [1..Len(tokens[1]) -> BOOLEAN]] :
        \A i \in 1..Len(tokens) : \A j \in 1..Len(tokens[i]) :
            /\ pos[i][j] => prob[i][j].num > 0
            /\ ~pos[i][j] => prob[i][j].num < prob[i][j].den}

\* The selected positions of rows before row i, and of row i before column j.
SelectedBefore(pos, i, j) ==
    Cardinality({c \in (1..Len(pos)) \X (1..Len(pos[1])) :
                    /\ pos[c[1]][c[2]]
                    /\ (c[1] < i \/ (c[1] = i /\ c[2] < j))})

\* total_words = int(corrupt_pos.sum())
TotalWords(pos) == SelectedBefore(pos, Len(pos) + 1, 1)

\* corrupts = zeros_like(tokens).masked_scatter_(corrupt_pos, corrupt_val): the
\* elements of corrupt_val go to the selected positions in row-major order.
Corrupts(tokens, pos, corrupt_val) ==
    [i \in Rows(tokens) |-> [j \in Cols(tokens) |->
        IF pos[i][j] THEN corrupt_val[SelectedBefore(pos, i, j) + 1] ELSE 0]]

\* tokens.add(corrupts).remainder_(len(dic)).masked_fill_(pad_mask, dic.pad())
SampledTokens(tokens, pos, corrupt_val) ==
    [i \in Rows(tokens) |-> [j \in Cols(tokens) |->
        IF PadMask(tokens)[i][j] THEN DicPad
        ELSE (tokens[i][j] + Corrupts(tokens, pos, corrupt_val)[i][j]) % DicLen]]

SwitchoutResultShifted(tokens, pos, corrupt_val) ==
    [i \in Rows(tokens) |-> [j \in Cols(tokens) |->
        IF PadMask(tokens)[i][j] THEN DicPad
        ELSE (tokens[i][j] + 1) % DicLen]]

\* if total_words == 0: return tokens
SwitchoutResult(tokens, pos, corrupt_val) ==
    IF TotalWords(pos) = 0 THEN tokens
    ELSE SampledTokens(tokens, pos, corrupt_val)

\* switchout(tokens, lengths, tau, dic), with the outcomes of its draws: nw of
\* the categorical sample, pos of the Bernoulli draw, corrupt_val the content
\* of the uninitialised tensor.
Switchout(tokens, lengths, tau, nw, pos, corrupt_val) ==
    /\ sw_pc = "idle"
    /\ sw_pc' = "returned"
    /\ sw_args' = [tokens |-> tokens, lengths |-> lengths, tau |-> tau]
    /\ num_words' = nw
    /\ corrupt_prob' = CorruptProb(tokens, lengths, nw)
    /\ corrupt_pos' = pos
    /\ sampled_tokens' = SwitchoutResult(tokens, pos, corrupt_val)
    /\ UNCHANGED notSwitchoutVars

\* A batch as collate_tokens makes it of sentences, with their lengths.
BatchOf(values, left_pad) ==
    CollateTokens([values |-> values, pad_idx |-> DicPad, eos_idx |-> None,
                   left_pad |-> left_pad, move_eos_to_beginning |-> FALSE]).res

LengthsOf(values) == [i \in 1..Len(values) |-> Len(values[i])]

SwitchoutIdle ==
    /\ sw_pc = "idle"
    /\ sw_args = <<>>
    /\ num_words = <<>>
    /\ corrupt_prob = <<>>
    /\ corrupt_pos = <<>>
    /\ sampled_tokens = <<>>

\* ------------------------------------------------------------------------
\* process_bpe_symbol
\* ------------------------------------------------------------------------

\* A str is the sequence of its characters.
Space == " "

\* The character U+2581 of sentencepiece.
LowerBlock == "U+2581"

\* The longest sentence drawn from the alphabet.
MaxChars == 5

Alphabet == {"a", "@", Space, LowerBlock}

\* The sentences of the examples.
ExampleBpe == <<"h", "e", "@", "@", Space, "l", "l", "o", "@", "@", Space,
                "w", "o", "r", "l", "d">>

ExampleSentencepiece == <<LowerBlock, "h", "e", Space, LowerBlock, "l", "l", "o">>

SentenceArgs ==
    UNION {[1..n -> Alphabet] : n \in 0..MaxChars}
        \cup {ExampleBpe, ExampleSentencepiece}

\* The str 'sentencepiece'.
Sentencepiece == <<"s", "e", "n", "t", "e", "n", "c", "e", "p", "i", "e", "c", "e">>

\* The bpe_symbol argument: None, 'sentencepiece', '@@' and '@@ '.
BpeSymbolArgs ==
    {None, Some(Sentencepiece), Some(<<"@", "@">>), Some(<<"@", "@", Space>>)}

StartsWith(s, old) == Len(s) >= Len(old) /\ SubSeq(s, 1, Len(old)) = old

\* s.replace(old, new) for a non-empty old: the occurrences are taken from the
\* left and do not overlap; what was put in is not searched again.
RECURSIVE Replace(_, _, _)
Replace(s, old, new) ==
    IF Len(s) = 0 THEN s
    ELSE IF StartsWith(s, old)
         THEN new \o Replace(SubSeq(s, Len(old) + 1, Len(s)), old, new)
         ELSE <<Head(s)>> \o Replace(Tail(s), old, new)

\* s.rstrip()
RECURSIVE RStrip(_)
RStrip(s) == IF Len(s) > 0 /\ s[Len(s)] = Space THEN RStrip(SubSeq(s, 1, Len(s) - 1))
             ELSE s

\* s.lstrip()
RECURSIVE LStrip(_)
LStrip(s) == IF Len(s) > 0 /\ Head(s) = Space THEN LStrip(Tail(s)) ELSE s

\* s.strip()
Strip(s) == LStrip(RStrip(s))

RemoveBpeWithSpace(sentence, symbol) ==
    RStrip(Replace(sentence \o <<Space>>, symbol \o <<Space>>, <<>>))

\* (sentence + ' ').replace(bpe_symbol, '').rstrip()
RemoveBpe(sentence, symbol) ==
    RStrip(Replace(sentence \o <<Space>>, symbol, <<>>))

\* sentence.replace(' ', '').replace('\u2581', ' ').strip()
RemoveSentencepiece(sentence) ==
    Strip(Replace(Replace(sentence, <<Space>>, <<>>), <<LowerBlock>>, <<Space>>))

\* process_bpe_symbol(sentence, bpe_symbol)
ProcessBpeSymbol(sentence, bpe_symbol) ==
    IF bpe_symbol = Some(Sentencepiece) THEN RemoveSentencepiece(sentence)
    ELSE IF ~IsNone(bpe_symbol) THEN RemoveBpe(sentence, bpe_symbol[1])
    ELSE sentence

ProcessBpe(sentence, bpe_symbol) ==
    /\ bpe_pc = "idle"
    /\ bpe_pc' = "returned"
    /\ bpe_args' = [sentence |-> sentence, bpe_symbol |-> bpe_symbol]
    /\ bpe_out' = ProcessBpeSymbol(sentence, bpe_symbol)
    /\ UNCHANGED notBpeVars

BpeIdle ==
    /\ bpe_pc = "idle"
    /\ bpe_args = <<>>
    /\ bpe_out = <<>>

\* ------------------------------------------------------------------------
\* MultilingualTranslationTask.train_step and valid_step
\* ------------------------------------------------------------------------

LangPairNames == {"en-de", "de-en", "en-fr"}

\* The most language pairs configured.
MaxPairs == 2

\* self.model_lang_pairs / self.eval_lang_pairs: the configured pairs in order.
LangPairLists ==
    {l \in UNION {[1..n -> LangPairNames] : n \in 1..MaxPairs} :
        \A i, j \in 1..Len(l) : i # j => l[i] # l[j]}

\* What the sample holds for a language pair: no key, None, an empty dict, or
\* a batch. loss and sample_size are what the criterion returns for a batch.
SampleEntries ==
    {[t |-> "missing", len |-> 0, loss |-> 0, sample_size |-> 0],
     [t |-> "none", len |-> 0, loss |-> 0, sample_size |-> 0],
     [t |-> "dict", len |-> 0, loss |-> 0, sample_size |-> 0]}
        \cup [t : {"dict"}, len : {4}, loss : {1, 2}, sample_size : {1, 2}]

SampleArgs == [LangPairNames -> SampleEntries]

IsAbsentNoKeyOnly(sample, lang_pair) == sample[lang_pair].t = "missing"

\* lang_pair not in sample or sample[lang_pair] is None or
\* len(sample[lang_pair]) == 0
IsAbsent(sample, lang_pair) ==
    \/ sample[lang_pair].t = "missing"
    \/ sample[lang_pair].t = "none"
    \/ sample[lang_pair].len = 0

\* The first loop of train_step with a data actor: the pairs scored.
RECURSIVE Scored(_, _)
Scored(lang_pairs, sample) ==
    IF Len(lang_pairs) = 0 THEN <<>>
    ELSE IF IsAbsent(sample, Head(lang_pairs)) THEN Scored(Tail(lang_pairs), sample)
    ELSE <<Head(lang_pairs)>> \o Scored(Tail(lang_pairs), sample)

\* The loop over the configured pairs: acc holds the criterion calls and the
\* aggregates so far. zero_loss is ignore_grad (loss *= 0).
RECURSIVE StepLoop(_, _, _, _)
StepLoop(lang_pairs, sample, zero_loss, acc) ==
    IF Len(lang_pairs) = 0 THEN acc
    ELSE LET lang_pair == Head(lang_pairs)
             out == sample[lang_pair]
             loss == IF zero_loss THEN 0 ELSE out.loss
         IN  IF IsAbsent(sample, lang_pair)
             THEN StepLoop(Tail(lang_pairs), sample, zero_loss, acc)
             ELSE StepLoop(Tail(lang_pairs), sample, zero_loss,
                     [calls |-> Append(acc.calls, lang_pair),
                      agg_loss |-> acc.agg_loss + loss,
                      agg_sample_size |-> acc.agg_sample_size + out.sample_size,
                      agg_logging_output |->
                          Append(acc.agg_logging_output,
                                 [k |-> lang_pair,
                                  val |-> [loss |-> out.loss,
                                           sample_size |-> out.sample_size]])])

\* agg_loss, agg_sample_size, agg_logging_output = 0., 0., {}
StepStart == [calls |-> <<>>, agg_loss |-> 0, agg_sample_size |-> 0,
              agg_logging_output |-> <<>>]

Returned(step, lang_pairs, sample, ignore_grad, data_actor, acc) ==
    /\ ts_pc = "idle"
    /\ ts_pc' = "returned"
    /\ ts_args' = [step |-> step, lang_pairs |-> lang_pairs, sample |-> sample,
                   ignore_grad |-> ignore_grad, data_actor |-> data_actor]
    /\ criterion_calls' = acc.calls
    /\ agg_loss' = acc.agg_loss
    /\ agg_sample_size' = acc.agg_sample_size
    /\ agg_logging_output' = acc.agg_logging_output
    /\ UNCHANGED notStepVars

\* train_step(sample, model, criterion, optimizer, ignore_grad, data_actor, ...)
\* with self.model_lang_pairs = lang_pairs; data_actor stands for
\* args.data_actor_step_update and data_actor is not None.
TrainStep(lang_pairs, sample, ignore_grad, data_actor) ==
    /\ Returned("train", lang_pairs, sample, ignore_grad, data_actor,
                StepLoop(lang_pairs, sample, ignore_grad, StepStart))
    /\ data_actor_out' = IF data_actor THEN Scored(lang_pairs, sample) ELSE <<>>

\* valid_step(sample, model, criterion) with self.eval_lang_pairs = lang_pairs
ValidStep(lang_pairs, sample) ==
    /\ Returned("valid", lang_pairs, sample, FALSE, FALSE,
                StepLoop(lang_pairs, sample, FALSE, StepStart))
    /\ UNCHANGED data_actor_out

StepIdle ==
    /\ ts_pc = "idle"
    /\ ts_args = <<>>
    /\ criterion_calls = <<>>
    /\ data_actor_out = <<>>
    /\ agg_loss = 0
    /\ agg_sample_size = 0
    /\ agg_logging_output = <<>>

\* ------------------------------------------------------------------------
\* Specifications
\* ------------------------------------------------------------------------

\* No operation has been called.
Idle ==
    /\ BatchIdle /\ CheckSizeIdle /\ FilterIdle /\ SeedIdle /\ PairIdle
    /\ CollateIdle /\ SwitchoutIdle /\ BpeIdle /\ StepIdle

InitBatch == Idle /\ np_state = 0

NextBatch ==
    \/ \E mt \in MaxTokensArgs, ms \in MaxSentencesArgs, mult \in BszMultArgs :
          BatchBySize(mt, ms, mult)
    \/ \E idx \in 0..(MaxLen - 1), nt \in TokenVals : BatchStep(idx, nt)
    \/ BatchFinish

SpecBatch == InitBatch /\ [][NextBatch]_vars

InitCheckSize == Idle /\ np_state = 0

NextCheckSize ==
    /\ cs_pc = "idle"
    /\ \E s \in Sizes, max_positions \in Limits, order \in KeyOrders :
          CheckSizeCall(s, max_positions, order)

SpecCheckSize == InitCheckSize /\ [][NextCheckSize]_vars

InitFilter == Idle /\ np_state = 0

NextFilter ==
    \/ \E idx \in 0..(MaxIdx - 1), s \in FilterSizes : Feed(idx, s)
    \/ \E max_positions \in FilterLimits, raise_exception \in BOOLEAN,
          noskip \in BOOLEAN, sizes_attr \in SizesAttrs, order \in FilterKeyOrders :
          FilterBySize(max_positions, raise_exception, noskip, sizes_attr, order)

SpecFilter == InitFilter /\ [][NextFilter]_vars

\* The PRNG starts in any state.
InitSeed ==
    /\ Idle
    /\ np_state \in 0..(RngStates - 1)

NextSeed ==
    \/ /\ \E seed \in SeedArgs, addl_seeds \in AddlSeedArgs :
             NumpySeedEnter(seed, addl_seeds)
       /\ UNCHANGED pairVars
    \/ Draw /\ UNCHANGED pairVars
    \/ /\ \E how \in {"return", "raise"} : NumpySeedExit(how)
       /\ UNCHANGED pairVars

SpecSeed == InitSeed /\ [][NextSeed]_vars

\* Scopes entered one after the other, with draws inside and between them.
NextSeedPair ==
    \/ \E seed \in PairSeedArgs, addl_seeds \in PairAddlSeedArgs :
          PairEnter(seed, addl_seeds)
    \/ PairDraw
    \/ \E how \in {"return", "raise"} : PairExit(how)

SpecSeedPair == InitSeed /\ [][NextSeedPair]_vars

InitCollate == Idle /\ np_state = 0

NextCollate ==
    /\ co_pc = "idle"
    /\ \E values \in ValueLists, eos_idx \in EosIdxArgs, left_pad \in BOOLEAN,
          move_eos_to_beginning \in BOOLEAN :
          Collate(values, eos_idx, left_pad, move_eos_to_beginning)

SpecCollate == InitCollate /\ [][NextCollate]_vars

InitSwitchout == Idle /\ np_state = 0

NextSwitchout ==
    /\ sw_pc = "idle"
    /\ \E values \in [SwitchoutRows -> Sentences], left_pad \in BOOLEAN, tau \in TauVals :
          LET tokens == BatchOf(values, left_pad)
              lengths == LengthsOf(values)
          IN  \E nw \in NumWordsSamples(tokens, lengths, tau) :
                 \E pos \in BernoulliSamples(tokens, CorruptProb(tokens, lengths, nw)) :
                    \E corrupt_val \in [1..TotalWords(pos) -> CorruptVals] :
                       Switchout(tokens, lengths, tau, nw, pos, corrupt_val)

SpecSwitchout == InitSwitchout /\ [][NextSwitchout]_vars

InitBpe == Idle /\ np_state = 0

NextBpe ==
    /\ bpe_pc = "idle"
    /\ \E sentence \in SentenceArgs, bpe_symbol \in BpeSymbolArgs :
          ProcessBpe(sentence, bpe_symbol)

SpecBpe == InitBpe /\ [][NextBpe]_vars

InitStep == Idle /\ np_state = 0

NextStep ==
    /\ ts_pc = "idle"
    /\ \/ \E lang_pairs \in LangPairLists, sample \in SampleArgs,
             ignore_grad \in BOOLEAN, data_actor \in BOOLEAN :
             TrainStep(lang_pairs, sample, ignore_grad, data_actor)
       \/ \E lang_pairs \in LangPairLists, sample \in SampleArgs :
             ValidStep(lang_pairs, sample)

SpecStep == InitStep /\ [][NextStep]_vars

\* ------------------------------------------------------------------------
\* Claims about batch_by_size
\* ------------------------------------------------------------------------

\* num_tokens_fn(i) for an index the call was given.
NumTokens(i) == ntoks[CHOOSE k \in 1..Len(indices) : indices[k] = i]

\* The padded cost of a batch: its longest example times its length.
BatchCost(b) == SeqMax([k \in 1..Len(b) |-> NumTokens(b[k])]) * Len(b)

\* C1: the batches, concatenated in emission order, are exactly the input
\* index sequence (nothing lost, duplicated or reordered), and no emitted
\* batch is empty. While the packer runs, the emitted batches followed by the
\* running batch are the indices consumed so far.
C1_ConcatIsInput ==
    /\ \A k \in 1..Len(batches) : Len(batches[k]) > 0
    /\ b_pc = "loop" => Concat(batches) \o batch = indices
    /\ b_pc = "done" => Concat(batches) = indices

\* A finished call on an unsorted input that closed a batch early and held
\* indices back.
C1_Witness ==
    /\ b_pc = "done"
    /\ indices = <<3, 0, 2, 1>>
    /\ bsz_mult = 2
    /\ Len(batches) = 2
    /\ ntoks = <<2, 2, 2, 9>>
    /\ max_tokens = 10

\* C2: every emitted batch has padded cost at most max_tokens, except a
\* singleton batch whose one example is itself larger than max_tokens.
C2_CostWithinMaxTokens ==
    \A k \in 1..Len(batches) :
        \/ BatchCost(batches[k]) <= max_tokens
        \/ Len(batches[k]) = 1 /\ NumTokens(batches[k][1]) > max_tokens

\* C3: with max_sentences given (>= 1) no batch, emitted or running, holds
\* more than max_sentences indices. A budget that is not given is unlimited:
\* with neither given the whole input is one batch; with only max_sentences
\* given (and no size multiple) every batch but the last is exactly
\* max_sentences long, whatever its cost; with only max_tokens given (and no
\* size multiple) every batch but the last was closed by the token budget.
C3_MaxSentences ==
    /\ ~IsNone(arg_max_sentences) =>
          /\ Len(batch) <= arg_max_sentences[1]
          /\ \A k \in 1..Len(batches) : Len(batches[k]) <= arg_max_sentences[1]
    /\ (IsNone(arg_max_sentences) /\ IsNone(arg_max_tokens)) =>
          /\ b_pc = "loop" => batches = <<>>
          /\ b_pc = "done" => batches = <<indices>>
    /\ (b_pc = "done" /\ IsNone(arg_max_tokens) /\ ~IsNone(arg_max_sentences)
          /\ bsz_mult = 1) =>
          \A k \in 1..(Len(batches) - 1) : Len(batches[k]) = arg_max_sentences[1]
    /\ (b_pc = "done" /\ IsNone(arg_max_sentences) /\ ~IsNone(arg_max_tokens)
          /\ bsz_mult = 1) =>
          \A k \in 1..(Len(batches) - 1) :
              BatchCost(Append(batches[k], batches[k + 1][1])) > arg_max_tokens[1]

\* max_sentences = 2 closed a batch, and without max_tokens a batch of cost 18
\* was emitted.
C3_Witness ==
    /\ b_pc = "done"
    /\ arg_max_tokens = None
    /\ arg_max_sentences = Some(2)
    /\ Len(batches) = 2
    /\ Len(batches[1]) = 2
    /\ BatchCost(batches[1]) = 18

\* The example of the specification: indices [0,1,2,3], num_tokens [3,5,2,9],
\* max_tokens 10, max_sentences 3, size multiple 1.
IsExampleCall ==
    /\ b_pc = "done"
    /\ indices = <<0, 1, 2, 3>>
    /\ ntoks = <<3, 5, 2, 9>>
    /\ arg_max_tokens = Some(10)
    /\ arg_max_sentences = Some(3)
    /\ bsz_mult = 1

\* C4: the example call produces exactly the batches [[0,1],[2],[3]].
C4_Example == IsExampleCall => batches = <<<<0, 1>>, <<2>>, <<3>>>>

C4_Witness == IsExampleCall /\ Len(batches) = 3

\* A step of the packer that closes a batch.
ClosesBatch == b_pc = "loop" /\ b_pc' = "loop" /\ Len(batches') = Len(batches) + 1

\* C5: when a step closes a batch because a budget would be exceeded, under a
\* size multiple m > 1: a running batch of at least m indices is emitted at a
\* length that is a positive multiple of m, a shorter one is emitted whole; the
\* emitted batch is a prefix of the running batch, and the indices held back,
\* in their order, followed by the new index, are the next running batch.
C5_SizeMultiple ==
    [][(ClosesBatch /\ bsz_mult > 1) =>
          LET emitted == batches'[Len(batches')]
              held == SubSeq(batch', 1, Len(batch') - 1)
          IN  /\ Len(batch) >= bsz_mult =>
                    Len(emitted) > 0 /\ Len(emitted) % bsz_mult = 0
              /\ Len(batch) < bsz_mult => emitted = batch
              /\ emitted \o held = batch
              /\ Len(held) < bsz_mult
              /\ batch'[Len(batch')] = indices'[Len(indices')]]_vars

\* A running batch of three was closed at length two and one index held back.
C5_Witness ==
    /\ b_pc = "loop"
    /\ bsz_mult = 2
    /\ max_tokens = 10
    /\ IsNone(arg_max_sentences)
    /\ ntoks = <<2, 2, 2, 9>>
    /\ indices = <<0, 3, 1, 2>>
    /\ batches = <<<<0, 3>>>>
    /\ batch = <<1, 2>>

\* ------------------------------------------------------------------------
\* Claims about filter_by_size
\* ------------------------------------------------------------------------

FilterDone == f_pc \in {"returned", "raised"}

\* dataset.size(i) for an index of the call.
SizeOfIndex(i) == ds_sizes[CHOOSE k \in 1..Len(ds_indices) : ds_indices[k] = i]

\* The limit predicate on an index of the call.
SatisfiesLimit(i) ==
    CheckSize(SizeOfIndex(i), f_args.max_positions, f_args.order) = "True"

\* check_size raises on some index of the call (the per-index path only).
SomeCheckRaises ==
    /\ ~IsVectorised(f_args.max_positions, f_args.sizes_attr)
    /\ \E k \in 1..Len(ds_indices) :
          CheckSize(ds_sizes[k], f_args.max_positions, f_args.order)
              \notin {"True", "False"}

\* noskip is read: the call takes the per-index path with noskip set.
NoskipApplies ==
    f_args.noskip /\ ~IsVectorised(f_args.max_positions, f_args.sizes_attr)

\* The input indices that satisfy the limit, and those that violate it, each
\* in input order.
Satisfying == SelectSeq(ds_indices, LAMBDA i : SatisfiesLimit(i))

Violating == SelectSeq(ds_indices, LAMBDA i : ~SatisfiesLimit(i))

\* C6 as stated: a non-strict call returns exactly the input indices that
\* satisfy the limit predicate, in input order (a subsequence of the input;
\* every returned index satisfies the predicate, every one left out violates
\* it).
C6_ReturnsSatisfying ==
    (f_pc = "returned" /\ ~f_args.raise_exception) => f_indices = Satisfying

\* C6, amended: the same for a non-strict call in which noskip is not read
\* (noskip unset, or a vectorised path); on the per-index path with noskip
\* set every input index is returned, whether it satisfies the limit or not.
C6_ReturnsSatisfyingUnlessNoskip ==
    (f_pc = "returned" /\ ~f_args.raise_exception) =>
        /\ ~NoskipApplies => f_indices = Satisfying /\ f_ignored = Violating
        /\ NoskipApplies => f_indices = ds_indices /\ f_ignored = <<>>

\* A non-strict call that dropped the middle one of three indices.
C6_Witness ==
    /\ f_pc = "returned"
    /\ ~f_args.raise_exception
    /\ ~f_args.noskip
    /\ f_args.sizes_attr = "none"
    /\ ds_indices = <<2, 0, 1>>
    /\ f_indices = <<2, 1>>
    /\ f_ignored = <<0>>

\* C7 as stated: the call fails iff the strict flag is set and an index is
\* dropped, the error naming the first dropped index, its size and the limit;
\* otherwise it returns the kept indices.
C7_FailsIffStrictAndDropped ==
    FilterDone =>
        LET dropped == IF NoskipApplies THEN <<>> ELSE Violating
            fails == f_args.raise_exception /\ Len(dropped) > 0
        IN  /\ f_pc = "raised" <=> fails
            /\ f_pc = "raised" =>
                  f_err = <<"Exception", dropped[1], SizeOfIndex(dropped[1]),
                            f_args.max_positions>>
            /\ f_pc = "returned" =>
                  f_indices = IF NoskipApplies THEN ds_indices ELSE Satisfying

\* C7, amended: when check_size can compare every size of the call with the
\* limit, the call fails iff the strict flag is set and an index is dropped,
\* with the error naming the first dropped index, its size and the limit, and
\* otherwise returns the kept indices. When check_size raises on an index (a
\* shape of size it does not support for that limit), the call fails with
\* that exception whatever the flag.
C7_FailsIffStrictAndDroppedOrUnsupported ==
    FilterDone =>
        LET dropped == IF NoskipApplies THEN <<>> ELSE Violating
            fails == f_args.raise_exception /\ Len(dropped) > 0
        IN  /\ SomeCheckRaises =>
                  /\ f_pc = "raised"
                  /\ f_err \in {<<"TypeError">>, <<"AttributeError">>,
                                <<"AssertionError">>}
            /\ ~SomeCheckRaises =>
                  /\ f_pc = "raised" <=> fails
                  /\ f_pc = "raised" =>
                        f_err = <<"Exception", dropped[1], SizeOfIndex(dropped[1]),
                                  f_args.max_positions>>
                  /\ f_pc = "returned" =>
                        f_indices = IF NoskipApplies THEN ds_indices ELSE Satisfying

\* A strict call that dropped two indices and named the first of them.
C7_Witness ==
    /\ f_pc = "raised"
    /\ f_args.raise_exception
    /\ ds_indices = <<2, 0, 1>>
    /\ ds_sizes = <<PyInt(2), PyInt(1), PyInt(2)>>
    /\ f_args.max_positions = PyInt(1)
    /\ f_err = <<"Exception", 2, PyInt(2), PyInt(1)>>

\* ------------------------------------------------------------------------
\* Claims about check_size
\* ------------------------------------------------------------------------

PyBool(b) == IF b THEN "True" ELSE "False"

\* The first field of a multi-field size: the first value of a mapping, the
\* first element of a tuple.
FirstField(s) == IF s.t = "dict" THEN s.v[1].val ELSE s.v[1]

\* C8 as stated: with a scalar limit a scalar size is kept iff size <= limit,
\* and a mapping or tuple size is kept iff its first field's value is <= limit.
C8_ScalarLimit ==
    (cs_pc = "done" /\ cs_limit.t = "int") =>
        /\ cs_size.t = "int" => cs_result = PyBool(cs_size.v <= cs_limit.v)
        /\ (cs_size.t \in {"dict", "tuple"} /\ FirstField(cs_size).t = "int") =>
              cs_result = PyBool(FirstField(cs_size).v <= cs_limit.v)

\* C8, amended: with a scalar limit a scalar size is kept iff size <= limit,
\* and a mapping size whose first field holds a scalar is kept iff that value
\* is <= limit, whatever its other fields hold. A tuple size is not compared:
\* check_size raises AttributeError; a mapping whose first field holds a tuple
\* raises TypeError.
C8_ScalarLimitMappingOnly ==
    (cs_pc = "done" /\ cs_limit.t = "int") =>
        /\ cs_size.t = "int" => cs_result = PyBool(cs_size.v <= cs_limit.v)
        /\ (cs_size.t = "dict" /\ FirstField(cs_size).t = "int") =>
              cs_result = PyBool(FirstField(cs_size).v <= cs_limit.v)
        /\ (cs_size.t = "dict" /\ FirstField(cs_size).t # "int") =>
              cs_result = "TypeError"
        /\ cs_size.t = "tuple" => cs_result = "AttributeError"

\* A mapping size kept on its first field although its second exceeds the limit.
C8_Witness ==
    /\ cs_pc = "done"
    /\ cs_limit = PyInt(1)
    /\ cs_size = PyDict(<<[k |-> "tgt", val |-> PyInt(1)],
                          [k |-> "src", val |-> PyInt(2)]>>)
    /\ cs_result = "True"

\* The values of a field as a sequence: a tuple's elements, a scalar alone.
FieldSeq(x) == IF x.t = "tuple" THEN x.v ELSE <<x>>

\* Every pair of a size value and a limit value, taken pairwise up to the
\* shorter of the two, passes: one of them is None, or size <= limit.
PairsPass(x, y) ==
    \A i \in 1..Min2(Len(FieldSeq(x)), Len(FieldSeq(y))) :
        LET a == FieldSeq(x)[i]
            b == FieldSeq(y)[i]
        IN  a.t = "none" \/ b.t = "none" \/ a.v <= b.v

CommonFields == DictKeys(cs_size) \cap DictKeys(cs_limit)

\* Every field of both mappings holds a tuple in both.
CommonFieldsAreTuples ==
    \A key \in CommonFields :
        DictGet(cs_size, key).t = "tuple" /\ DictGet(cs_limit, key).t = "tuple"

\* C9 as stated: with a mapping limit and a mapping size the index is kept iff
\* every field present in both passes pairwise, a field's limit (or size)
\* being a tuple of optional scalars or a scalar.
C9_MappingLimit ==
    (cs_pc = "done" /\ cs_limit.t = "dict" /\ cs_size.t = "dict") =>
        cs_result = PyBool(\A key \in CommonFields :
                               PairsPass(DictGet(cs_size, key), DictGet(cs_limit, key)))

\* C9, amended: with a mapping limit and a mapping size whose common fields
\* hold tuples of optional scalars on both sides, the index is kept iff every
\* field present in both passes pairwise up to the shorter tuple, None on
\* either side passing; a field present in only one of the two is never
\* compared. When a common field holds a scalar in the limit or in the size,
\* check_size raises TypeError, unless a field iterated before it has already
\* failed the comparison.
C9_MappingLimitTuplesOnly ==
    (cs_pc = "done" /\ cs_limit.t = "dict" /\ cs_size.t = "dict") =>
        /\ CommonFieldsAreTuples =>
              cs_result = PyBool(\A key \in CommonFields :
                                     PairsPass(DictGet(cs_size, key),
                                               DictGet(cs_limit, key)))
        /\ ~CommonFieldsAreTuples =>
              /\ cs_result \in {"TypeError", "False"}
              /\ cs_result = "False" =>
                    \E key \in CommonFields :
                        /\ DictGet(cs_size, key).t = "tuple"
                        /\ DictGet(cs_limit, key).t = "tuple"
                        /\ ~PairsPass(DictGet(cs_size, key), DictGet(cs_limit, key))

\* A size kept on the one common field, compared up to the shorter tuple; the
\* other field is in the size only.
C9_Witness ==
    /\ cs_pc = "done"
    /\ cs_limit = PyDict(<<[k |-> "src", val |-> PyTuple(<<PyInt(1)>>)]>>)
    /\ cs_size = PyDict(<<[k |-> "src", val |-> PyTuple(<<PyInt(1), PyInt(2)>>)],
                          [k |-> "tgt", val |-> PyTuple(<<PyInt(2)>>)]>>)
    /\ cs_result = "True"

\* ------------------------------------------------------------------------
\* Claims about numpy_seed
\* ------------------------------------------------------------------------

\* C10: when a scope entered with a seed other than None is left, by its body
\* completing or by its body raising, the global PRNG state is the state it
\* had immediately before the scope was entered, whatever was drawn inside.
C10_StateRestored ==
    (last_exit.left /\ last_exit.seeded) => last_exit.after = last_exit.entry

\* A seeded scope, entered in state 2, whose body drew and then raised.
C10_Witness ==
    /\ last_exit.left
    /\ last_exit.seeded
    /\ last_exit.how = "raise"
    /\ last_exit.drew
    /\ last_exit.entry = 2
    /\ np_state = 2
    /\ scopes = <<>>

\* The outermost scopes recorded were entered with the same arguments.
SameArguments ==
    /\ o_pc \in {"second", "done"}
    /\ o_second.seed = o_first.seed
    /\ o_second.addl_seeds = o_first.addl_seeds

\* The draws the two scopes have both made are the same.
SameDraws ==
    \A k \in 1..Min2(Len(o_first.draws), Len(o_second.draws)) :
        o_first.draws[k] = o_second.draws[k]

\* hash((seed, *addl_seeds)) mod 1 000 000, in integers.
HashModMillion(rec) == PyModMillion(TupleHash(<<rec.seed[1]>> \o rec.addl_seeds))

\* The same with the hash rounded to a double before the modulo.
DoubleHashModMillion(rec) ==
    PyModMillion(FloatOf(TupleHash(<<rec.seed[1]>> \o rec.addl_seeds)))

Recorded == IF o_pc = "before" THEN {} ELSE
            IF o_pc \in {"first", "between"} THEN {o_first} ELSE {o_first, o_second}

\* C11 as stated: two scopes entered with the same seed and the same
\* additional seeds make the same draws, whatever the PRNG state at entry and
\* whatever is drawn between them; the seed a scope sets is its seed without
\* additional seeds and hash((seed, *addl_seeds)) mod 1 000 000 with them.
C11_SameSeedSameDraws ==
    /\ SameArguments => SameDraws
    /\ \A rec \in Recorded :
          rec.set = IF rec.addl_seeds = <<>> THEN rec.seed[1] ELSE HashModMillion(rec)

\* C11 amended: the same, with the seed set with additional seeds being the
\* hash converted to a double (rounded to 53 significant bits) modulo 1e6,
\* truncated to an integer; it is below 1 000 000 and not negative.
C11_SameSeedSameDrawsDoubleHash ==
    /\ SameArguments => SameDraws
    /\ \A rec \in Recorded :
          /\ rec.set = IF rec.addl_seeds = <<>> THEN rec.seed[1]
                       ELSE DoubleHashModMillion(rec)
          /\ rec.addl_seeds # <<>> => rec.set \in 0..(Million - 1)

\* Two scopes with seed 5 and additional seeds (2, 3), entered in different
\* PRNG states with a draw between them, both drew twice.
C11_Witness ==
    /\ o_pc = "done"
    /\ SameArguments
    /\ o_first.seed = Some(5)
    /\ o_first.addl_seeds = <<2, 3>>
    /\ Len(o_first.draws) = MaxDraws
    /\ Len(o_second.draws) = MaxDraws
    /\ o_first.at # o_second.at
    /\ HashModMillion(o_first) # DoubleHashModMillion(o_first)

\* C12: a scope entered with seed None is a no-op, with or without additional
\* seeds: entering it leaves the global PRNG state as it is (no reseeding),
\* leaving it leaves the state as it is (no restoring), so what was drawn
\* inside stays consumed.
C12_NoneIsNoOp ==
    [][/\ \A addl_seeds \in AddlSeedArgs :
             NumpySeedEnter(None, addl_seeds) => np_state' = np_state
       /\ \A how \in {"return", "raise"} :
             (NumpySeedExit(how) /\ ~scopes[Len(scopes)].seeded) =>
                 np_state' = np_state]_vars

\* A scope entered with seed None in state 1 was left after a draw: the PRNG
\* is in the state the draw moved it to.
C12_Witness ==
    /\ last_exit.left
    /\ ~last_exit.seeded
    /\ last_exit.drew
    /\ scopes = <<>>
    /\ np_state = last_exit.after
    /\ np_state = RngStep(1)

\* ------------------------------------------------------------------------
\* Claims about collate_tokens
\* ------------------------------------------------------------------------

\* The cells of row i that stand for sequence i: the last len_i cells with
\* left_pad, the first len_i cells without.
Truncated(i) ==
    LET row == res[i]
        n == Len(co_args.values[i])
    IN  IF co_args.left_pad THEN SubSeq(row, Len(row) - n + 1, Len(row))
        ELSE SubSeq(row, 1, n)

\* The other cells of row i.
PadCells(i) ==
    LET row == res[i]
        n == Len(co_args.values[i])
    IN  IF co_args.left_pad THEN SubSeq(row, 1, Len(row) - n)
        ELSE SubSeq(row, n + 1, Len(row))

MaxInputLen == SetMax({Len(co_args.values[i]) : i \in 1..Len(co_args.values)})

EndsWithEos(v) == Len(v) > 0 /\ Some(v[Len(v)]) = co_args.eos_idx

\* C15: without move_eos_to_beginning collate_tokens returns one row per
\* input sequence, each as wide as the longest input; row i truncated to the
\* length of sequence i (its last cells with left_pad, its first cells
\* without) is sequence i, and every other cell holds pad_idx.
C15_RoundTrip ==
    (co_pc # "idle" /\ ~co_args.move_eos_to_beginning) =>
        /\ co_pc = "returned"
        /\ Len(res) = Len(co_args.values)
        /\ \A i \in 1..Len(res) :
              /\ Len(res[i]) = MaxInputLen
              /\ Truncated(i) = co_args.values[i]
              /\ \A j \in 1..Len(PadCells(i)) : PadCells(i)[j] = co_args.pad_idx

\* Two sequences of lengths 1 and 3, padded on the left.
C15_Witness ==
    /\ co_pc = "returned"
    /\ ~co_args.move_eos_to_beginning
    /\ co_args.left_pad
    /\ co_args.values = <<<<4>>, <<4, 4, DicEos>>>>
    /\ res = <<<<DicPad, DicPad, 4>>, <<4, 4, DicEos>>>>

\* C16: with move_eos_to_beginning collate_tokens fails exactly when some
\* input sequence does not end with eos_idx; when it returns, the cells of
\* row i that stand for sequence i hold eos_idx followed by the sequence
\* without its last element (as many cells as the sequence is long), and every
\* other cell holds pad_idx.
C16_MoveEos ==
    (co_pc # "idle" /\ co_args.move_eos_to_beginning) =>
        /\ co_pc = "raised" <=>
              \E i \in 1..Len(co_args.values) : ~EndsWithEos(co_args.values[i])
        /\ co_pc = "returned" =>
              \A i \in 1..Len(res) :
                 LET v == co_args.values[i]
                 IN  /\ Truncated(i) = co_args.eos_idx \o SubSeq(v, 1, Len(v) - 1)
                     /\ Len(Truncated(i)) = Len(v)
                     /\ \A j \in 1..Len(PadCells(i)) :
                           PadCells(i)[j] = co_args.pad_idx

\* A call that moved eos to the beginning of two rows, and a state where a call
\* failed on a sequence without eos at its end.
C16_Witness ==
    /\ co_pc = "returned"
    /\ co_args.move_eos_to_beginning
    /\ co_args.values = <<<<4, DicEos>>, <<4, 4, DicEos>>>>
    /\ ~co_args.left_pad
    /\ res = <<<<DicEos, 4, DicPad>>, <<DicEos, 4, 4>>>>

\* ------------------------------------------------------------------------
\* Claims about switchout
\* ------------------------------------------------------------------------

Positions == {c \in (1..Len(sw_args.tokens)) \X (1..Len(sw_args.tokens[1])) : TRUE}

IsSpecial(id) == id \in {DicPad, DicEos, DicBos}

NothingSelected == \A c \in Positions : ~corrupt_pos[c[1]][c[2]]

\* C13: in the tokens switchout returns, every position that held pad, eos
\* or bos in the input holds the same id, and every position that was not
\* selected for corruption holds the id it held in the input.
C13_SpecialsKept ==
    sw_pc = "returned" =>
        \A c \in Positions :
            LET before == sw_args.tokens[c[1]][c[2]]
                after == sampled_tokens[c[1]][c[2]]
            IN  /\ IsSpecial(before) => after = before
                /\ ~corrupt_pos[c[1]][c[2]] => after = before

\* A left-padded batch with bos, eos and pad in it of which one word was
\* replaced and another was not.
C13_Witness ==
    /\ sw_pc = "returned"
    /\ sw_args.tokens = <<<<DicPad, SwitchoutWord, DicEos>>,
                          <<DicBos, SwitchoutWord, DicEos>>>>
    /\ sampled_tokens = <<<<DicPad, 3, DicEos>>, <<DicBos, SwitchoutWord, DicEos>>>>
    /\ corrupt_pos[1][2]

\* C14: when no position of the batch is selected, switchout returns its
\* input tokens unchanged; when every row's sampled count is 0 no position
\* is selected.
C14_NothingSelectedIdentity ==
    sw_pc = "returned" =>
        /\ NothingSelected => sampled_tokens = sw_args.tokens
        /\ (\A i \in 1..Len(num_words) : num_words[i] = 0) => NothingSelected

\* A batch with words in both rows, a count of 1 in each, and nothing
\* selected by the Bernoulli draw.
C14_Witness ==
    /\ sw_pc = "returned"
    /\ NothingSelected
    /\ num_words = <<1, 1>>
    /\ sampled_tokens = <<<<SwitchoutWord, DicEos, DicPad>>,
                          <<DicBos, SwitchoutWord, DicEos>>>>

\* C20: for every row (its true length L is at least 1) the sampled count k
\* is in 0..L-1, so the probability k/L of corrupting a position is at least 0
\* and below 1, and it is 0 on every pad, eos or bos position.
C20_CountBelowLength ==
    sw_pc = "returned" =>
        \A c \in Positions :
            LET L == sw_args.lengths[c[1]]
                k == num_words[c[1]]
                prob == corrupt_prob[c[1]][c[2]]
            IN  /\ L >= 1
                /\ 0 <= k /\ k <= L - 1
                /\ 0 <= prob.num /\ prob.num < prob.den
                /\ IsSpecial(sw_args.tokens[c[1]][c[2]]) => prob.num = 0
                /\ ~IsSpecial(sw_args.tokens[c[1]][c[2]]) =>
                      (prob.num = k /\ prob.den = L)

\* A row of true length 3 in which the largest count, 2, was sampled, next to
\* a shorter row.
C20_Witness ==
    /\ sw_pc = "returned"
    /\ sw_args.lengths = <<3, 2>>
    /\ num_words = <<2, 1>>
    /\ corrupt_prob[1][1] = [num |-> 2, den |-> 3]
    /\ corrupt_prob[2][3] = [num |-> 0, den |-> 1]

\* ------------------------------------------------------------------------
\* Claims about process_bpe_symbol
\* ------------------------------------------------------------------------

BpeCalled(sentence, symbol) ==
    /\ bpe_pc = "returned"
    /\ bpe_args.sentence = sentence
    /\ bpe_args.bpe_symbol = Some(symbol)

HelloWorld == <<"h", "e", "l", "l", "o", Space, "w", "o", "r", "l", "d">>

HeLloWorld == <<"h", "e", Space, "l", "l", "o", Space, "w", "o", "r", "l", "d">>

HelloworldJoined == <<"h", "e", "l", "l", "o", "w", "o", "r", "l", "d">>

\* The symbol is a joiner marker: not None and not 'sentencepiece'.
IsJoinerCall ==
    /\ bpe_pc = "returned"
    /\ ~IsNone(bpe_args.bpe_symbol)
    /\ bpe_args.bpe_symbol # Some(Sentencepiece)

\* The characters of s that are in the set keep, in order.
Only(s, keep) == SelectSeq(s, LAMBDA c : c \in keep)

\* s occurs in t.
Occurs(s, t) == \E k \in 0..(Len(t) - Len(s)) : SubSeq(t, k + 1, k + Len(s)) = s

\* C17 as stated: process_bpe_symbol("he@@ llo@@ world", "@@") returns
\* "hello world", and for a joiner symbol every marker at the end of a word
\* piece is removed together with the space after it: no marker followed by
\* a space is left where the sentence had one and no marker of its own.
C17_BpeExample ==
    /\ BpeCalled(ExampleBpe, <<"@", "@">>) => bpe_out = HelloWorld
    /\ (IsJoinerCall /\ bpe_args.bpe_symbol = Some(<<"@", "@">>)
           /\ Only(bpe_args.sentence, {"@"}) = <<"@", "@">>
           /\ Occurs(<<"a", "@", "@", Space, "a">>, bpe_args.sentence)) =>
          Occurs(<<"a", "a">>, bpe_out)

\* C17 amended: process_bpe_symbol("he@@ llo@@ world", "@@") returns
\* "he llo world" and process_bpe_symbol("he@@ llo@@ world", "@@ ") returns
\* "helloworld". For a joiner symbol the occurrences of the symbol string
\* itself are removed and nothing else but trailing spaces: the characters that
\* are not in the symbol are kept in order, the result does not end with a
\* space, and a sentence in which the symbol does not occur (with a space
\* appended) is returned without its trailing spaces. The space after a
\* marker goes only when it is part of the symbol.
C17_BpeExampleSymbolOnly ==
    /\ BpeCalled(ExampleBpe, <<"@", "@">>) => bpe_out = HeLloWorld
    /\ BpeCalled(ExampleBpe, <<"@", "@", Space>>) => bpe_out = HelloworldJoined
    /\ IsJoinerCall =>
          LET symbol == bpe_args.bpe_symbol[1]
              others == (Alphabet \cup Range(ExampleBpe)) \ (Range(symbol) \cup {Space})
          IN  /\ Only(bpe_out, others) = Only(bpe_args.sentence, others)
              /\ Len(bpe_out) <= Len(bpe_args.sentence)
              /\ Len(bpe_out) > 0 => bpe_out[Len(bpe_out)] # Space
              /\ ~Occurs(symbol, bpe_args.sentence \o <<Space>>) =>
                    bpe_out = RStrip(bpe_args.sentence)
              /\ (symbol = <<"@", "@">> /\ Only(bpe_args.sentence, {"@"}) = symbol
                     /\ Occurs(<<"a", "@", "@", Space, "a">>, bpe_args.sentence)) =>
                    Occurs(<<"a", Space, "a">>, bpe_out)

\* The example call with the symbol "@@".
C17_Witness ==
    /\ BpeCalled(ExampleBpe, <<"@", "@">>)
    /\ bpe_out = HeLloWorld

\* ------------------------------------------------------------------------
\* Claims about train_step and valid_step
\* ------------------------------------------------------------------------

\* The sample holds a batch for the language pair.
InSample(lang_pair) ==
    LET e == ts_args.sample[lang_pair]
    IN  e.t = "dict" /\ e.len > 0

\* The configured pairs the sample holds a batch for, in configured order.
PairsPresent == SelectSeq(ts_args.lang_pairs, InSample)

SampleSizeOf(lang_pair) == ts_args.sample[lang_pair].sample_size

LossOf(lang_pair) == IF ts_args.ignore_grad THEN 0 ELSE ts_args.sample[lang_pair].loss

RECURSIVE SumSampleSizes(_)
SumSampleSizes(lang_pairs) ==
    IF Len(lang_pairs) = 0 THEN 0
    ELSE SampleSizeOf(Head(lang_pairs)) + SumSampleSizes(Tail(lang_pairs))

RECURSIVE SumLosses(_)
SumLosses(lang_pairs) ==
    IF Len(lang_pairs) = 0 THEN 0
    ELSE LossOf(Head(lang_pairs)) + SumLosses(Tail(lang_pairs))

\* C18: train_step and valid_step return without error whatever pairs the
\* sample lacks (no key, None, or empty); the criterion is called for exactly
\* the configured pairs the sample holds, in configured order; the
\* aggregated loss and sample size are the sums over those pairs and the
\* aggregated logging output has an entry for each of them and for no other.
C18_AbsentPairSkipped ==
    ts_pc = "returned" =>
        /\ criterion_calls = PairsPresent
        /\ agg_sample_size = SumSampleSizes(PairsPresent)
        /\ agg_loss = SumLosses(PairsPresent)
        /\ [i \in 1..Len(agg_logging_output) |-> agg_logging_output[i].k] = PairsPresent
        /\ ts_args.data_actor => data_actor_out = PairsPresent

\* A train step over two configured pairs of which the first is None in the
\* sample: only the second is counted.
C18_Witness ==
    /\ ts_pc = "returned"
    /\ ts_args.step = "train"
    /\ ts_args.lang_pairs = <<"en-de", "de-en">>
    /\ ts_args.sample["en-de"].t = "none"
    /\ InSample("de-en")
    /\ InSample("en-fr")
    /\ criterion_calls = <<"de-en">>
    /\ agg_sample_size = 2
    /\ Len(agg_logging_output) = 1

\* ------------------------------------------------------------------------
\* Claims about the two paths of filter_by_size
\* ------------------------------------------------------------------------

\* A finished call with a scalar limit on a dataset of scalar sizes.
ScalarCall ==
    /\ f_pc # "input"
    /\ f_args.max_positions.t = "int"
    /\ \A k \in 1..Len(ds_sizes) : ds_sizes[k].t = "int"

\* What the same call gives when dataset.sizes is as sizes_attr says.
OnPath(sizes_attr) ==
    FilterBySizeOutcome(ds_indices, ds_sizes, [f_args EXCEPT !.sizes_attr = sizes_attr])

\* C19: for a scalar limit and scalar sizes filter_by_size returns the same
\* indices, leaves out the same indices and raises under the same conditions
\* on the vectorised paths (dataset.sizes an array, or a list of one array)
\* and on the per-index path; with noskip set no index is left out and nothing
\* is raised on any path.
C19_PathsAgree ==
    ScalarCall =>
        /\ \A sizes_attr \in SizesAttrs :
              /\ OnPath(sizes_attr).pc = f_pc
              /\ OnPath(sizes_attr).indices = f_indices
              /\ OnPath(sizes_attr).ignored = f_ignored
              /\ OnPath(sizes_attr).err = f_err
        /\ f_args.noskip => (f_pc = "returned" /\ f_indices = ds_indices)

====
